---- MODULE Spec2Model ----
(***************************************************************************)
(* Label conversion utilities of the dataset generator:                    *)
(*   token_classification.py  token_labels_to_spans, spans_to_token_labels,*)
(*                            replace_token_labels                         *)
(*   question_answering.py    calculate_answer_start                       *)
(*                                                                         *)
(* A Python str is a sequence of one-character strings; Python's 0-based   *)
(* half-open slices are written Slice(s, a, b).  A dict is a function; a   *)
(* dict whose order matters is a sequence of <<key, value>> pairs.         *)
(***************************************************************************)
EXTENDS Integers, Sequences, FiniteSets, TLC

VARIABLES
    pc,                 \* position of the call being modelled
    id2label,           \* label vocabulary: id -> tag
    expanded_labels,    \* replace_token_labels: entity type -> expanded type
    replaced_id2label,  \* replace_token_labels: the returned dict
    example,            \* calculate_answer_start: the SQuAD example
    dataset,            \* token_labels_to_spans: the token-level dataset
    spans_dataset,      \* the dataset with natural-language labels
    label_options,      \* token_labels_to_spans: the returned label options
    columns,            \* the columns written by Dataset.map
    row,                \* loop position (row of the map / index of the zip)
    lines,              \* spans_to_token_labels: label lines still to parse
    spans,              \* spans_to_token_labels: the local list `spans`
    tokens,             \* spans_to_token_labels: the local list `tokens`
    bio_tags,           \* spans_to_token_labels: the local list `bio_tags`
    result              \* spans_to_token_labels: the returned dataset

vars == <<pc, id2label, expanded_labels, replaced_id2label, example, dataset,
          spans_dataset, label_options, columns, row, lines, spans, tokens,
          bio_tags, result>>

-----------------------------------------------------------------------------
(* Bounds of the model *)

MaxIds == 2        \* entries of a label vocabulary
MaxLen == 3        \* characters of a context / an answer
MaxTokens == 3     \* tokens of an example given to token_labels_to_spans
MaxLines == 2      \* lines of a natural-language label string
MaxBatch == 2      \* examples of a batch given to spans_to_token_labels

-----------------------------------------------------------------------------
(* Python str primitives *)

UpperCase == <<"A","B","C","D","E","F","G","H","I","J","K","L","M",
               "N","O","P","Q","R","S","T","U","V","W","X","Y","Z">>
LowerCase == <<"a","b","c","d","e","f","g","h","i","j","k","l","m",
               "n","o","p","q","r","s","t","u","v","w","x","y","z">>
Whitespace == {" ", "\n", "\t"}

LowerChar(c) ==
    IF \E k \in DOMAIN UpperCase : UpperCase[k] = c
    THEN LowerCase[CHOOSE k \in DOMAIN UpperCase : UpperCase[k] = c]
    ELSE c

\* str.lower()
Lower(s) == [k \in 1..Len(s) |-> LowerChar(s[k])]

\* s[a:b]
Slice(s, a, b) == SubSeq(s, a + 1, b)

\* s.startswith(prefix)
StartsWith(s, prefix) ==
    Len(prefix) <= Len(s) /\ SubSeq(s, 1, Len(prefix)) = prefix

\* s[at:].startswith(sub), at 0-based
MatchAt(s, sub, at) ==
    at + Len(sub) <= Len(s) /\ SubSeq(s, at + 1, at + Len(sub)) = sub

\* s.find(sub, start): the lowest index >= start where sub occurs, else -1
RECURSIVE Find(_, _, _)
Find(s, sub, start) ==
    IF start + Len(sub) > Len(s) THEN -1
    ELSE IF MatchAt(s, sub, start) THEN start
    ELSE Find(s, sub, start + 1)

\* s.split(sep, maxsplit); maxsplit = -1 is s.split(sep)
RECURSIVE SplitMax(_, _, _)
SplitMax(s, sep, maxsplit) ==
    LET at == Find(s, sep, 0)
    IN  IF maxsplit = 0 \/ at < 0 THEN <<s>>
        ELSE <<Slice(s, 0, at)>>
                 \o SplitMax(Slice(s, at + Len(sep), Len(s)), sep, maxsplit - 1)

Split(s, sep) == SplitMax(s, sep, -1)

\* s.replace(old, new): every non-overlapping occurrence, left to right
RECURSIVE Replace(_, _, _)
Replace(s, old, new) ==
    LET at == Find(s, old, 0)
    IN  IF at < 0 THEN s
        ELSE Slice(s, 0, at) \o new
                 \o Replace(Slice(s, at + Len(old), Len(s)), old, new)

\* sep.join(parts)
RECURSIVE Join(_, _)
Join(parts, sep) ==
    IF parts = <<>> THEN <<>>
    ELSE IF Len(parts) = 1 THEN parts[1]
    ELSE parts[1] \o sep \o Join(Tail(parts), sep)

RECURSIVE LStrip(_)
LStrip(s) ==
    IF s # <<>> /\ s[1] \in Whitespace THEN LStrip(Tail(s)) ELSE s

RECURSIVE RStrip(_)
RStrip(s) ==
    IF s # <<>> /\ s[Len(s)] \in Whitespace
    THEN RStrip(SubSeq(s, 1, Len(s) - 1)) ELSE s

\* s.strip()
Strip(s) == RStrip(LStrip(s))

\* all sequences over S of length lo..hi
SeqsBetween(S, lo, hi) == UNION {[1..n -> S] : n \in lo..hi}

-----------------------------------------------------------------------------
(* Literals *)

O == <<"O">>
PER == <<"P","E","R">>
LOC == <<"L","O","C">>
PERSON == <<"P","E","R","S","O","N">>
BPrefix == <<"B","-">>
IPrefix == <<"I","-">>

\* token_classification.py:11-13
LABEL_SEPARATOR == <<"\n">>
LABEL2ENTITY_SEPARATOR == <<"-",">">>
ENTITY_SEPARATOR == <<",", " ">>

NoValue == <<>>

\* the variables of the two converters, and their value while neither runs
converterVars == <<dataset, spans_dataset, label_options, columns, row, lines,
                   spans, tokens, bio_tags, result>>
ConverterIdle ==
    /\ dataset = NoValue /\ spans_dataset = NoValue /\ label_options = {}
    /\ columns = NoValue /\ row = 0 /\ lines = NoValue /\ spans = NoValue
    /\ tokens = NoValue /\ bio_tags = NoValue /\ result = NoValue

-----------------------------------------------------------------------------
(* replace_token_labels *)

\* `prefix, label = tag.split("-", 1)`
TagParts(tag) == SplitMax(tag, <<"-">>, 1)

HasBioPrefix(tag) == StartsWith(tag, BPrefix) \/ StartsWith(tag, IPrefix)

\* the tuple unpacking of line 133 raises ValueError unless it gets two parts
ReplaceRaises(vocab) ==
    \E idx \in DOMAIN vocab :
        HasBioPrefix(vocab[idx]) /\ Len(TagParts(vocab[idx])) # 2

ReplaceTagDropsPrefix(tag, expanded) ==
    IF HasBioPrefix(tag)
    THEN LET label == TagParts(tag)[2]
         IN  IF label \in DOMAIN expanded THEN expanded[label] ELSE tag
    ELSE tag

\* the body of the loop of replace_token_labels, for one tag
ReplaceTag(tag, expanded) ==
    IF HasBioPrefix(tag)
    THEN LET prefix == TagParts(tag)[1]
             label == TagParts(tag)[2]
         IN  IF label \in DOMAIN expanded
             THEN prefix \o <<"-">> \o expanded[label]
             ELSE tag
    ELSE tag

replace_token_labels(vocab, expanded) ==
    [idx \in DOMAIN vocab |-> ReplaceTag(vocab[idx], expanded)]

XPER == <<"X","-","P","E","R">>
RemapTags ==
    {O, BPrefix \o PER, IPrefix \o PER, BPrefix \o LOC, IPrefix \o XPER,
     BPrefix, PER}
RemapKeys == {PER, XPER, <<"X">>}
RemapValues == {PERSON, LOC}

Vocabularies(tags) == UNION {[0..(n - 1) -> tags] : n \in 0..MaxIds}
ExpansionMaps == UNION {[K -> RemapValues] : K \in SUBSET RemapKeys}

RemapInit ==
    /\ pc = "remap"
    /\ id2label \in Vocabularies(RemapTags)
    /\ expanded_labels \in ExpansionMaps
    /\ replaced_id2label = NoValue
    /\ example = NoValue
    /\ ConverterIdle

RemapCall ==
    /\ pc = "remap"
    /\ IF ReplaceRaises(id2label)
       THEN pc' = "raised" /\ UNCHANGED replaced_id2label
       ELSE /\ pc' = "remapped"
            /\ replaced_id2label' = replace_token_labels(id2label, expanded_labels)
    /\ UNCHANGED <<id2label, expanded_labels, example>>
    /\ UNCHANGED converterVars

RemapNext == RemapCall
SpecRemap == RemapInit /\ [][RemapNext]_vars

\* the part of a tag after its first '-' (the tag itself when it has none)
AfterFirstDash(tag) ==
    LET dashes == {k \in 1..Len(tag) : tag[k] = "-"}
        first == CHOOSE k \in dashes : \A j \in dashes : k <= j
    IN  IF dashes = {} THEN tag ELSE SubSeq(tag, first + 1, Len(tag))

\* C1: replace_token_labels never fails and returns a mapping over the same
\* ids in which a tag 'B-T' / 'I-T' whose T is a key of expanded_labels
\* becomes the same prefix, '-', and the mapped value, and every other tag is
\* returned as it was.
C1_ReplaceTokenLabels ==
    /\ pc # "raised"
    /\ pc = "remapped" =>
        /\ DOMAIN replaced_id2label = DOMAIN id2label
        /\ \A idx \in DOMAIN id2label :
            LET tag == id2label[idx]
                type == AfterFirstDash(tag)
            IN  IF /\ Len(tag) >= 2 /\ tag[1] \in {"B", "I"} /\ tag[2] = "-"
                   /\ type \in DOMAIN expanded_labels
                THEN replaced_id2label[idx]
                        = <<tag[1], "-">> \o expanded_labels[type]
                ELSE replaced_id2label[idx] = tag

\* a vocabulary with a renamed tag, a tag of an unmapped type, the outside
\* label and a type that itself contains '-' has been remapped
C1_Witness ==
    /\ pc = "remapped"
    /\ \E idx \in DOMAIN id2label : replaced_id2label[idx] # id2label[idx]
    /\ \E idx \in DOMAIN id2label :
        /\ id2label[idx] = IPrefix \o XPER
        /\ XPER \in DOMAIN expanded_labels
        /\ <<"X">> \in DOMAIN expanded_labels

-----------------------------------------------------------------------------
(* calculate_answer_start *)

Question == <<"q">>
Alphabet == {"a", "b"}

calculate_answer_start_nonoverlapping(ex) ==
    LET first == Find(ex.context, ex.answers, 0)
        second == IF first < 0 THEN -1
                  ELSE Find(ex.context, ex.answers, first + Len(ex.answers))
        start == IF first < 0 THEN -1 ELSE IF second >= 0 THEN -1 ELSE first
    IN  [k \in DOMAIN ex \cup {"answer_start"} |->
            IF k = "answer_start" THEN start ELSE ex[k]]

calculate_answer_start(ex) ==
    LET first == Find(ex.context, ex.answers, 0)
        second == IF first < 0 THEN -1
                  ELSE Find(ex.context, ex.answers, first + 1)
        start == IF first < 0 THEN -1 ELSE IF second >= 0 THEN -1 ELSE first
    IN  [k \in DOMAIN ex \cup {"answer_start"} |->
            IF k = "answer_start" THEN start ELSE ex[k]]

QAInit ==
    /\ pc = "qa"
    /\ \E c \in SeqsBetween(Alphabet, 0, MaxLen),
          a \in SeqsBetween(Alphabet, 0, MaxLen) :
          example = [question |-> Question, context |-> c, answers |-> a]
    /\ id2label = NoValue /\ expanded_labels = NoValue
    /\ replaced_id2label = NoValue
    /\ ConverterIdle

QACall ==
    /\ pc = "qa"
    /\ example' = calculate_answer_start(example)
    /\ pc' = "answered"
    /\ UNCHANGED <<id2label, expanded_labels, replaced_id2label>>
    /\ UNCHANGED converterVars

QANext == QACall
SpecQA == QAInit /\ [][QANext]_vars

\* the start positions at which the answer occurs in the context
Occurrences(context, answer) ==
    {p \in 0..Len(context) :
        /\ p + Len(answer) <= Len(context)
        /\ \A k \in 1..Len(answer) : context[p + k] = answer[k]}

\* C9: calculate_answer_start sets answer_start to the position of the
\* answer when the answer occurs at exactly one start position of the
\* context, and to -1 when it occurs at none or at two or more (overlapping
\* occurrences included); the other fields keep their values.
C9_AnswerStart ==
    [][pc = "qa" =>
        LET occ == Occurrences(example.context, example.answers)
        IN  /\ pc' = "answered"
            /\ DOMAIN example' = DOMAIN example \cup {"answer_start"}
            /\ \A k \in DOMAIN example : example'[k] = example[k]
            /\ IF Cardinality(occ) = 1
               THEN example'.answer_start \in occ
               ELSE example'.answer_start = -1]_vars

\* an answer with two overlapping occurrences has been given the sentinel
C9_Witness ==
    /\ pc = "answered"
    /\ example.context = <<"a", "a", "a">>
    /\ example.answers = <<"a", "a">>
    /\ example.answer_start = -1

-----------------------------------------------------------------------------
(* The tag-scheme bridge used by token_labels_to_spans (spacy.training and  *)
(* spacy.tokens.Doc, imported at lines 7-8)                                 *)

\* Doc(Vocab(), words=words).text: every word is followed by one space
RECURSIVE DocText(_)
DocText(words) ==
    IF words = <<>> THEN <<>>
    ELSE words[1] \o <<" ">> \o DocText(Tail(words))

\* token.idx of the k-th word (k from 1) of Doc(Vocab(), words=words)
RECURSIVE WordIdx(_, _)
WordIdx(words, k) ==
    IF k = 1 THEN 0 ELSE WordIdx(words, k - 1) + Len(words[k - 1]) + 1

\* the number of leading tags of `tags` that are in `targets`
RECURSIVE RunLength(_, _)
RunLength(tags, targets) ==
    IF tags # <<>> /\ tags[1] \in targets
    THEN 1 + RunLength(Tail(tags), targets) ELSE 0

\* iob_to_biluo: runs of "O" are copied; an entity is its first tag and the
\* following tags "I"/"L" + tag[1:]; one tag becomes U-, more become B- I- L-
RECURSIVE iob_to_biluo(_)
iob_to_biluo(tags) ==
    IF tags = <<>> THEN <<>>
    ELSE IF tags[1] = O THEN <<O>> \o iob_to_biluo(Tail(tags))
    ELSE LET tag == tags[1]
             target_in == <<"I">> \o Tail(tag)
             target_last == <<"L">> \o Tail(tag)
             length == 1 + RunLength(Tail(tags), {target_in, target_last})
             label == Slice(tag, 2, Len(tag))
             ent == IF length = 1 THEN << <<"U", "-">> \o label >>
                    ELSE << BPrefix \o label >>
                         \o [k \in 1..(length - 2) |-> IPrefix \o label]
                         \o << <<"L", "-">> \o label >>
         IN  ent \o iob_to_biluo(SubSeq(tags, length + 1, Len(tags)))

\* biluo_tags_to_offsets(doc, tags): (start_char, end_char, label) of every
\* U- token and of every B- ... L- run, in the order of the text
RECURSIVE biluo_tags_to_offsets(_, _, _)
biluo_tags_to_offsets(words, tags, k) ==
    IF k > Len(tags) THEN <<>>
    ELSE LET tag == tags[k]
             label == Slice(tag, 2, Len(tag))
             last == CHOOSE j \in k..Len(tags) :
                        /\ tags[j][1] = "L"
                        /\ \A m \in k..(j - 1) : tags[m][1] # "L"
         IN  IF tag[1] = "U"
             THEN << <<WordIdx(words, k), WordIdx(words, k) + Len(words[k]), label>> >>
                      \o biluo_tags_to_offsets(words, tags, k + 1)
             ELSE IF tag[1] = "B"
             THEN << <<WordIdx(words, k),
                       WordIdx(words, last) + Len(words[last]), label>> >>
                      \o biluo_tags_to_offsets(words, tags, last + 1)
             ELSE biluo_tags_to_offsets(words, tags, k + 1)

-----------------------------------------------------------------------------
(* token_labels_to_spans *)

\* span_labels.setdefault(label, []).append(text) on an insertion-ordered dict
SetDefaultAppendOverwrites(span_labels, label, text) ==
    IF \E k \in DOMAIN span_labels : span_labels[k][1] = label
    THEN [k \in DOMAIN span_labels |->
            IF span_labels[k][1] = label
            THEN <<label, <<text>> >>
            ELSE span_labels[k]]
    ELSE Append(span_labels, <<label, <<text>> >>)

SetDefaultAppend(span_labels, label, text) ==
    IF \E k \in DOMAIN span_labels : span_labels[k][1] = label
    THEN [k \in DOMAIN span_labels |->
            IF span_labels[k][1] = label
            THEN <<label, Append(span_labels[k][2], text)>>
            ELSE span_labels[k]]
    ELSE Append(span_labels, <<label, <<text>> >>)

\* the loop of lines 40-42
RECURSIVE GroupSpans(_, _, _)
GroupSpans(text, offsets, span_labels) ==
    IF offsets = <<>> THEN span_labels
    ELSE GroupSpans(text, Tail(offsets),
            SetDefaultAppend(span_labels, offsets[1][3],
                             Slice(text, offsets[1][1], offsets[1][2])))

\* f"{k} {LABEL2ENTITY_SEPARATOR} {v}"
FormatLine(k, v) == k \o <<" ">> \o LABEL2ENTITY_SEPARATOR \o <<" ">> \o v

\* token_labels_to_spans.labels_to_spans, one example of the map
labels_to_spans(ex, vocab) ==
    LET tags == [k \in 1..Len(ex.labels) |-> vocab[ex.labels[k]]]
        bilou_tags == iob_to_biluo(tags)
        text == DocText(ex.tokens)
        offsets == biluo_tags_to_offsets(ex.tokens, bilou_tags, 1)
        span_labels == GroupSpans(text, offsets, <<>>)
        joined == [k \in DOMAIN span_labels |->
                    FormatLine(span_labels[k][1],
                               Join(span_labels[k][2], ENTITY_SEPARATOR))]
    IN  [tokens |-> text,
         labels |-> ex.labels,
         labels_natural_language |-> Join(joined, LABEL_SEPARATOR)]

\* line 31: the set comprehension over id2label.values()
StripBioPrefixes(label) == Replace(Replace(label, BPrefix, <<>>), IPrefix, <<>>)
LabelOptionSet(vocab) == {StripBioPrefixes(vocab[k]) : k \in DOMAIN vocab}

\* lines 30-32; list.remove("O") raises ValueError when "O" is not in the list
FwdOptions ==
    /\ pc = "fwd"
    /\ IF O \in LabelOptionSet(id2label)
       THEN /\ label_options' = LabelOptionSet(id2label) \ {O}
            /\ pc' = "fwd_map"
       ELSE /\ pc' = "raised"
            /\ UNCHANGED label_options
    /\ UNCHANGED <<id2label, expanded_labels, replaced_id2label, example,
                   dataset, spans_dataset, columns, row, lines, spans, tokens,
                   bio_tags, result>>

\* dataset.map(labels_to_spans): one row
FwdMapRow ==
    /\ pc = "fwd_map"
    /\ row < Len(dataset)
    /\ columns' = Append(columns, labels_to_spans(dataset[row + 1], id2label))
    /\ row' = row + 1
    /\ UNCHANGED <<pc, id2label, expanded_labels, replaced_id2label, example,
                   dataset, spans_dataset, label_options, lines, spans, tokens,
                   bio_tags, result>>

\* .remove_columns(label_column).rename_column(new_label_column, label_column)
FwdFinish ==
    /\ pc = "fwd_map"
    /\ row = Len(dataset)
    /\ spans_dataset' = [k \in DOMAIN columns |->
            [tokens |-> columns[k].tokens,
             labels |-> columns[k].labels_natural_language]]
    /\ pc' = "fwd_done"
    /\ UNCHANGED <<id2label, expanded_labels, replaced_id2label, example,
                   dataset, label_options, columns, row, lines, spans, tokens,
                   bio_tags, result>>

\* the id -> tag vocabulary of the examples
StdId2Label ==
    (0 :> O) @@ (1 :> BPrefix \o PER) @@ (2 :> IPrefix \o PER)
             @@ (3 :> BPrefix \o LOC) @@ (4 :> IPrefix \o LOC)

Al == <<"A","l">>
ALcaps == <<"A","L">>
Ali == <<"A","l","i">>
Bo == <<"B","o">>
Words == {Al, ALcaps, Ali, Bo}

\* label sequences in which I-T only follows B-T or I-T
WellFormedBio(tags) ==
    \A k \in DOMAIN tags :
        tags[k][1] = "I" =>
            /\ k > 1
            /\ tags[k - 1] \in {tags[k], BPrefix \o Slice(tags[k], 2, Len(tags[k]))}

BioIdSeqs(n) ==
    {ids \in [1..n -> DOMAIN StdId2Label] :
        WellFormedBio([k \in 1..n |-> StdId2Label[ids[k]]])}

\* the dataset is one example of 1..MaxTokens tokens with well-formed tags
OneTokenExample ==
    \E n \in 1..MaxTokens : \E ids \in BioIdSeqs(n) : \E ws \in [1..n -> Words] :
        dataset = << [tokens |-> ws, labels |-> ids] >>

SCIFI == <<"S","C","I","-","F","I">>
OptionTags ==
    {O, BPrefix \o PER, IPrefix \o PER, BPrefix \o LOC,
     BPrefix \o SCIFI, IPrefix \o SCIFI, BPrefix \o O}

FwdIdle ==
    /\ expanded_labels = NoValue /\ replaced_id2label = NoValue
    /\ example = NoValue
    /\ spans_dataset = NoValue /\ label_options = {}
    /\ columns = <<>> /\ row = 0 /\ lines = NoValue /\ spans = NoValue
    /\ tokens = NoValue /\ bio_tags = NoValue /\ result = NoValue

\* one example over the standard vocabulary, or any vocabulary and no rows
FwdInit ==
    /\ pc = "fwd"
    /\ \/ id2label = StdId2Label /\ OneTokenExample
       \/ id2label \in Vocabularies(OptionTags) /\ dataset = <<>>
    /\ FwdIdle

FwdNext == FwdOptions \/ FwdMapRow \/ FwdFinish
SpecForward == FwdInit /\ [][FwdNext]_vars

\* the elements of a finite set of integers, ascending
RECURSIVE Ascending(_)
Ascending(S) ==
    IF S = {} THEN <<>>
    ELSE LET least == CHOOSE x \in S : \A y \in S : x <= y
         IN  <<least>> \o Ascending(S \ {least})

TypeOf(tag) == SubSeq(tag, 3, Len(tag))

\* the last token of the entity that begins at token b: the B- tag and the
\* I- tags of its type that follow it
EntityEnd(tags, b) ==
    CHOOSE e \in b..Len(tags) :
        /\ \A m \in (b + 1)..e : tags[m] = IPrefix \o TypeOf(tags[b])
        /\ e = Len(tags) \/ tags[e + 1] # IPrefix \o TypeOf(tags[b])

\* the label string the claim describes, read off the tokens and the tags
ExpectedLabelString(words, tags) ==
    LET begins == {b \in DOMAIN tags : tags[b][1] = "B"}
        firsts == {b \in begins :
                     \A c \in begins : TypeOf(tags[c]) = TypeOf(tags[b]) => b <= c}
        textOf(b) == Join(SubSeq(words, b, EntityEnd(tags, b)), <<" ">>)
        lineOf(b) ==
            LET same == Ascending({c \in begins : TypeOf(tags[c]) = TypeOf(tags[b])})
            IN  TypeOf(tags[b]) \o <<" ", "-", ">", " ">>
                    \o Join([k \in DOMAIN same |-> textOf(same[k])], <<",", " ">>)
        order == Ascending(firsts)
    IN  Join([k \in DOMAIN order |-> lineOf(order[k])], <<"\n">>)

\* C6: for a well-formed BIO example the label string has one line
\* 'TYPE -> span1, span2, ...' per entity type that has a span, the lines in
\* the order in which the types first occur in the text, the spans of a line
\* in their order in the text joined by ', ', the lines joined by a newline,
\* and it is the empty string when the example has no entity.
C6_LabelString ==
    pc = "fwd_done" =>
        /\ Len(spans_dataset) = Len(dataset)
        /\ \A r \in DOMAIN dataset :
            LET tags == [k \in DOMAIN dataset[r].labels |->
                            id2label[dataset[r].labels[k]]]
            IN  WellFormedBio(tags) =>
                    spans_dataset[r].labels
                        = ExpectedLabelString(dataset[r].tokens, tags)

\* LOC, PER, LOC: two types in first-seen order, two spans of one type
C6_Witness ==
    /\ pc = "fwd_done"
    /\ dataset = << [tokens |-> <<Ali, Bo, Al>>, labels |-> <<3, 1, 3>>] >>
    /\ spans_dataset[1].labels
         = LOC \o <<" ", "-", ">", " ">> \o Ali \o <<",", " ">> \o Al
               \o <<"\n">> \o PER \o <<" ", "-", ">", " ">> \o Bo

WellFormedVocabulary(vocab) ==
    \A k \in DOMAIN vocab :
        \/ vocab[k] = O
        \/ Len(vocab[k]) > 2 /\ vocab[k][1] \in {"B", "I"} /\ vocab[k][2] = "-"

\* C7: for a vocabulary of 'O' and '{B,I}-TYPE' tags the returned
\* label_options are exactly the distinct TYPE names of the vocabulary,
\* spelled as in the vocabulary, without the outside label.
C7_LabelOptions ==
    (pc = "fwd_done" /\ WellFormedVocabulary(id2label)) =>
        label_options
            = {TypeOf(id2label[k]) : k \in {j \in DOMAIN id2label : id2label[j] # O}}
                \ {O}

-----------------------------------------------------------------------------
(* The tokenizer and the tag-scheme bridge used by spans_to_token_labels    *)
(* (spacy.blank("en"), spacy.training, lines 95-98)                         *)

\* spacy.blank("en")(text) for a text of words separated by single spaces:
\* the tokens <<token.idx, token.text>>; one trailing space belongs to the
\* token before it
RECURSIVE Tokenize(_, _)
Tokenize(text, from) ==
    IF from >= Len(text) THEN <<>>
    ELSE LET sp == Find(text, <<" ">>, from)
             stop == IF sp < 0 THEN Len(text) ELSE sp
         IN  (IF stop > from THEN << <<from, Slice(text, from, stop)>> >> ELSE <<>>)
                 \o Tokenize(text, stop + 1)

Dash == <<"-">>

\* offsets_to_biluo_tags raises ValueError (E103) when a character of a
\* labelled entity already belongs to an earlier labelled entity
OffsetsConflict(entities) ==
    \E a, b \in DOMAIN entities :
        /\ a < b
        /\ entities[a][3] # <<>> /\ entities[b][3] # <<>>
        /\ \E c \in entities[b][1]..(entities[b][2] - 1) :
              entities[a][1] <= c /\ c < entities[a][2]

\* offsets_to_biluo_tags, the entity loop, one entity: an entity without a
\* label marks the tokens starting inside it "O"; a labelled entity is
\* written only when it starts at a token start and ends at a token end
ApplyEntity(doc, ent, biluo) ==
    LET start_char == ent[1]
        end_char == ent[2]
        label == ent[3]
        startToks == {t \in DOMAIN doc : doc[t][1] = start_char}
        endToks == {t \in DOMAIN doc : doc[t][1] + Len(doc[t][2]) = end_char}
        start_token == CHOOSE t \in startToks : TRUE
        end_token == CHOOSE t \in endToks : TRUE
    IN  IF label = <<>>
        THEN [t \in DOMAIN doc |->
                IF doc[t][1] >= start_char /\ doc[t][1] < end_char
                THEN O ELSE biluo[t]]
        ELSE IF startToks = {} \/ endToks = {} THEN biluo
        ELSE IF start_token = end_token
        THEN [biluo EXCEPT ![start_token] = <<"U", "-">> \o label]
        ELSE [t \in DOMAIN doc |->
                IF t = end_token THEN <<"L", "-">> \o label
                ELSE IF t > start_token /\ t < end_token THEN IPrefix \o label
                ELSE IF t = start_token THEN BPrefix \o label
                ELSE biluo[t]]

RECURSIVE ApplyEntities(_, _, _)
ApplyEntities(doc, entities, biluo) ==
    IF entities = <<>> THEN biluo
    ELSE ApplyEntities(doc, Tail(entities), ApplyEntity(doc, entities[1], biluo))

\* offsets_to_biluo_tags(doc, entities) when it does not raise: every token
\* starts as "-"; a token none of whose characters is in an entity gets "O";
\* a token that an entity touches without aligning to it stays "-"
offsets_to_biluo_tags(doc, entities) ==
    LET applied == ApplyEntities(doc, entities, [t \in DOMAIN doc |-> Dash])
        entity_chars == UNION {entities[e][1]..(entities[e][2] - 1) :
                                  e \in DOMAIN entities}
    IN  [t \in DOMAIN doc |->
            IF \E c \in doc[t][1]..(doc[t][1] + Len(doc[t][2]) - 1) :
                  c \in entity_chars
            THEN applied[t] ELSE O]

\* s.replace(old, new, 1)
ReplaceFirst(s, old, new) ==
    LET at == Find(s, old, 0)
    IN  IF at < 0 THEN s
        ELSE Slice(s, 0, at) \o new \o Slice(s, at + Len(old), Len(s))

\* biluo_to_iob
biluo_to_iob(tags) ==
    [t \in DOMAIN tags |->
        ReplaceFirst(ReplaceFirst(tags[t], <<"U", "-">>, BPrefix),
                     <<"L", "-">>, IPrefix)]

-----------------------------------------------------------------------------
(* spans_to_token_labels *)

\* pattern.search(text.lower()) of the escaped entity: the first occurrence
EntitySpanLast(text, entity, label) ==
    LET occ == {p \in 0..Len(text) : MatchAt(Lower(text), entity, p)}
        at == CHOOSE p \in occ : \A q \in occ : q <= p
    IN  IF occ = {} THEN <<>> ELSE << <<at, at + Len(entity), label>> >>

\* lines 88-93: the span appended for one entity string, if any
EntitySpan(text, entity, label) ==
    LET at == Find(Lower(text), entity, 0)
    IN  IF at >= 0 THEN << <<at, at + Len(entity), label>> >> ELSE <<>>

RECURSIVE EntitySpans(_, _, _)
EntitySpans(text, entities, label) ==
    IF entities = <<>> THEN <<>>
    ELSE EntitySpan(text, entities[1], label)
             \o EntitySpans(text, Tail(entities), label)

LineSpansKeepsCase(text, parts) ==
    LET label == Strip(parts[1])
        raw == Split(parts[2], ENTITY_SEPARATOR)
        entities == [k \in DOMAIN raw |-> Strip(raw[k])]
    IN  EntitySpans(text, entities, label)

\* lines 84-93 for one line that has been split in two at "->"
LineSpans(text, parts) ==
    LET label == Strip(parts[1])
        raw == Split(parts[2], ENTITY_SEPARATOR)
        entities == [k \in DOMAIN raw |-> Lower(Strip(raw[k]))]
    IN  EntitySpans(text, entities, label)

\* line 70: a later id wins for a tag that occurs twice
label2id(vocab) ==
    [tag \in {vocab[k] : k \in DOMAIN vocab} |->
        CHOOSE k \in DOMAIN vocab :
            vocab[k] = tag /\ \A j \in DOMAIN vocab : vocab[j] = tag => j <= k]

\* line 79-82: the next example of the zip; an empty label string is skipped
BwdNextExample ==
    /\ pc = "bwd_zip"
    /\ row < Len(spans_dataset)
    /\ IF spans_dataset[row + 1].labels = <<>>
       THEN /\ row' = row + 1
            /\ UNCHANGED <<pc, lines, spans>>
       ELSE /\ lines' = Split(spans_dataset[row + 1].labels, LABEL_SEPARATOR)
            /\ spans' = <<>>
            /\ pc' = "bwd_lines"
            /\ UNCHANGED row
    /\ UNCHANGED <<id2label, expanded_labels, replaced_id2label, example,
                   dataset, spans_dataset, label_options, columns, tokens,
                   bio_tags, result>>

\* lines 83-93: one label line; the unpacking of line 84 raises ValueError
\* unless the line splits in exactly two parts
BwdParseLine ==
    /\ pc = "bwd_lines"
    /\ lines # <<>>
    /\ LET parts == Split(lines[1], LABEL2ENTITY_SEPARATOR)
       IN  IF Len(parts) # 2
           THEN /\ pc' = "raised_ValueError"
                /\ UNCHANGED <<lines, spans>>
           ELSE /\ spans' = spans \o LineSpans(spans_dataset[row + 1].tokens, parts)
                /\ lines' = Tail(lines)
                /\ UNCHANGED pc
    /\ UNCHANGED <<id2label, expanded_labels, replaced_id2label, example,
                   dataset, spans_dataset, label_options, columns, row, tokens,
                   bio_tags, result>>

\* lines 95-102: tokenize and align; a ValueError of the bridge is caught
BwdAlign ==
    /\ pc = "bwd_lines"
    /\ lines = <<>>
    /\ LET doc == Tokenize(spans_dataset[row + 1].tokens, 0)
       IN  IF OffsetsConflict(spans)
           THEN /\ bio_tags' = Append(bio_tags, <<>>)
                /\ tokens' = Append(tokens, <<>>)
           ELSE /\ bio_tags' = Append(bio_tags,
                                   biluo_to_iob(offsets_to_biluo_tags(doc, spans)))
                /\ tokens' = Append(tokens, [t \in DOMAIN doc |-> doc[t][2]])
    /\ row' = row + 1
    /\ pc' = "bwd_zip"
    /\ UNCHANGED <<id2label, expanded_labels, replaced_id2label, example,
                   dataset, spans_dataset, label_options, columns, lines, spans,
                   result>>

\* lines 104-107: the columns the batched step returns; label2id[tag] raises
\* KeyError for a tag that is not in the vocabulary
BwdColumns ==
    /\ pc = "bwd_zip"
    /\ row = Len(spans_dataset)
    /\ IF \E e \in DOMAIN bio_tags : \E t \in DOMAIN bio_tags[e] :
              bio_tags[e][t] \notin DOMAIN label2id(id2label)
       THEN /\ pc' = "raised_KeyError"
            /\ UNCHANGED columns
       ELSE /\ columns' =
                [tokens |-> tokens,
                 labels |-> [e \in DOMAIN spans_dataset |-> spans_dataset[e].labels],
                 labels_tags |-> [e \in DOMAIN bio_tags |->
                    [t \in DOMAIN bio_tags[e] |-> label2id(id2label)[bio_tags[e][t]]]]]
            /\ pc' = "bwd_columns"
    /\ UNCHANGED <<id2label, expanded_labels, replaced_id2label, example,
                   dataset, spans_dataset, label_options, row, lines, spans,
                   tokens, bio_tags, result>>

\* lines 109-114: Dataset.map(batched=True) writes the returned batch as one
\* table and fails unless its columns have one length; then the label column
\* is replaced and the rows with an empty token list are filtered out
BwdFinish ==
    /\ pc = "bwd_columns"
    /\ IF Len(columns.tokens) # Len(columns.labels)
          \/ Len(columns.labels_tags) # Len(columns.labels)
       THEN /\ pc' = "raised_ArrowInvalid"
            /\ UNCHANGED result
       ELSE /\ result' = SelectSeq(
                    [e \in DOMAIN columns.tokens |->
                        [tokens |-> columns.tokens[e],
                         labels |-> columns.labels_tags[e]]],
                    LAMBDA r : Len(r.tokens) > 0)
            /\ pc' = "bwd_done"
    /\ UNCHANGED <<id2label, expanded_labels, replaced_id2label, example,
                   dataset, spans_dataset, label_options, columns, row, lines,
                   spans, tokens, bio_tags>>

Raised == pc \in {"raised_ValueError", "raised_KeyError", "raised_ArrowInvalid"}

MISC == <<"M","I","S","C">>
Arrow == <<" ">> \o LABEL2ENTITY_SEPARATOR \o <<" ">>
al == <<"a","l">>
zz == <<"z","z">>

LabelLines ==
    { PER \o Arrow \o al,
      LOC \o Arrow \o Bo,
      PER \o Arrow \o al \o ENTITY_SEPARATOR \o Bo,
      PER \o Arrow \o zz \o ENTITY_SEPARATOR \o Bo,
      PER \o Arrow \o Al \o <<" ">> \o Bo,
      MISC \o Arrow \o Bo,
      PER \o <<" ">> \o al,
      PER \o Arrow \o al \o Arrow \o Bo,
      <<>> }

LabelStrings ==
    {Join(ls, LABEL_SEPARATOR) : ls \in SeqsBetween(LabelLines, 0, MaxLines)}

Texts ==
    {DocText(<<Al, Bo>>), DocText(<<Ali, Al>>), DocText(<<Al, Bo, Al>>),
     Join(<<Bo, ALcaps>>, <<" ">>)}

SpanExamples ==
    {[tokens |-> t, labels |-> l] : t \in Texts, l \in LabelStrings}

BatchExamples ==
    {[tokens |-> DocText(<<Al, Bo>>), labels |-> <<>>],
     [tokens |-> DocText(<<Al, Bo>>), labels |-> PER \o Arrow \o al],
     [tokens |-> DocText(<<Bo, Al>>), labels |-> LOC \o Arrow \o Bo],
     [tokens |-> DocText(<<Al, Bo>>),
      labels |-> PER \o Arrow \o al \o LABEL_SEPARATOR \o LOC \o Arrow \o al]}

BwdIdle ==
    /\ expanded_labels = NoValue /\ replaced_id2label = NoValue
    /\ example = NoValue
    /\ dataset = NoValue /\ label_options = {}
    /\ columns = NoValue /\ row = 0 /\ lines = NoValue /\ spans = NoValue
    /\ tokens = <<>> /\ bio_tags = <<>> /\ result = NoValue

\* one example of any text and label string, or a batch of simple examples
BwdInit ==
    /\ pc = "bwd_zip"
    /\ id2label = StdId2Label
    /\ \/ \E ex \in SpanExamples : spans_dataset = <<ex>>
       \/ spans_dataset \in SeqsBetween(BatchExamples, 0, MaxBatch)
    /\ BwdIdle

BwdNext ==
    BwdNextExample \/ BwdParseLine \/ BwdAlign \/ BwdColumns \/ BwdFinish
SpecBackward == BwdInit /\ [][BwdNext]_vars

\* the start positions at which a span string occurs in the lower-cased text
LowerOccurrences(text, entity) ==
    {p \in 0..Len(text) :
        /\ p + Len(entity) <= Len(text)
        /\ \A k \in 1..Len(entity) : LowerChar(text[p + k]) = entity[k]}

\* the span the claim describes for one span string: none, or the one at the
\* smallest start position
ExpectedSpan(text, entity, type) ==
    LET occ == LowerOccurrences(text, entity)
        s == CHOOSE p \in occ : \A q \in occ : p <= q
    IN  IF occ = {} THEN <<>> ELSE << <<s, s + Len(entity), type>> >>

RECURSIVE Concat(_)
Concat(seqs) == IF seqs = <<>> THEN <<>> ELSE seqs[1] \o Concat(Tail(seqs))

ExpectedLineSpans(text, line) ==
    LET parts == Split(line, <<"-", ">">>)
        strings == Split(parts[2], <<",", " ">>)
    IN  Concat([k \in DOMAIN strings |->
            ExpectedSpan(text, Lower(Strip(strings[k])), Strip(parts[1]))])

\* the label lines of the current example that have been parsed
ParsedLines ==
    LET all == Split(spans_dataset[row + 1].labels, <<"\n">>)
    IN  SubSeq(all, 1, Len(all) - Len(lines))

\* C5: every span string of every parsed label line, trimmed and lower-cased,
\* is recorded as (s, s + len, entity_type) with s the smallest index at
\* which it occurs in the lower-cased text, and is skipped when it occurs
\* nowhere, the later span strings and lines being processed all the same.
C5_FirstOccurrence ==
    pc = "bwd_lines" =>
        spans = Concat([k \in DOMAIN ParsedLines |->
                    ExpectedLineSpans(spans_dataset[row + 1].tokens, ParsedLines[k])])

\* 'zz' occurs nowhere and is skipped, 'bo' after it is recorded, and 'al'
\* of the next line, which occurs twice, is recorded at its first position
C5_Witness ==
    /\ pc = "bwd_lines"
    /\ lines = <<>>
    /\ spans_dataset[row + 1].tokens = DocText(<<Al, Bo, Al>>)
    /\ spans = << <<3, 5, PER>>, <<0, 2, PER>> >>

\* a span that covers characters and does not start at a token start or does
\* not end at a token end
Misaligned(span, doc) ==
    /\ span[1] < span[2]
    /\ \/ \A t \in DOMAIN doc : doc[t][1] # span[1]
       \/ \A t \in DOMAIN doc : doc[t][1] + Len(doc[t][2]) # span[2]

Terminated == pc = "bwd_done" \/ Raised

\* C2: every example whose label string is empty is dropped from the output
\* dataset, and the call completes and returns the remaining examples.
C2_EmptyLabelDropped ==
    (Terminated /\ \E e \in DOMAIN spans_dataset : spans_dataset[e].labels = <<>>) =>
        /\ pc = "bwd_done"
        /\ Len(result) <= Cardinality({e \in DOMAIN spans_dataset :
                                          spans_dataset[e].labels # <<>>})

\* C3: for non-empty label strings, however malformed (a line without '->',
\* with more than one '->', or of a type without tags in the vocabulary), no
\* exception reaches the caller: the call completes.
C3_NoException ==
    (\A e \in DOMAIN spans_dataset : spans_dataset[e].labels # <<>>) => ~Raised

\* C4: when the spans of an example contain a span that is not aligned to the
\* token boundaries, the example's token list and tag list are empty, and the
\* example is absent from the returned dataset.
C4_MisalignedEmptied ==
    LET aligned == pc = "bwd_zip" /\ row >= 1 /\ tokens # <<>>
                   /\ spans_dataset[row].labels # <<>>
        misaligned == \E k \in DOMAIN spans :
                        Misaligned(spans[k], Tokenize(spans_dataset[row].tokens, 0))
    IN  /\ (aligned /\ misaligned) =>
              tokens[Len(tokens)] = <<>> /\ bio_tags[Len(bio_tags)] = <<>>
        /\ (Terminated /\ Len(spans_dataset) = 1 /\ row = 1
               /\ spans_dataset[1].labels # <<>> /\ lines = <<>> /\ misaligned) =>
              pc = "bwd_done" /\ result = <<>>

\* C10: the token column and the tag-id column returned by the batched step
\* have one entry per example of the batch, and entry i (tokens and tags of
\* equal length) is computed from example i.
C10_Positional ==
    pc = "bwd_columns" =>
        /\ Len(columns.tokens) = Len(spans_dataset)
        /\ Len(columns.labels_tags) = Len(spans_dataset)
        /\ \A e \in DOMAIN spans_dataset :
            LET doc == Tokenize(spans_dataset[e].tokens, 0)
            IN  /\ Len(columns.tokens[e]) = Len(columns.labels_tags[e])
                /\ columns.tokens[e] \in {<<>>, [t \in DOMAIN doc |-> doc[t][2]]}

-----------------------------------------------------------------------------
(* token_labels_to_spans followed by spans_to_token_labels *)

\* the caller hands the dataset returned by token_labels_to_spans to
\* spans_to_token_labels, with the same vocabulary
RoundTripCall ==
    /\ pc = "fwd_done"
    /\ pc' = "bwd_zip"
    /\ row' = 0
    /\ columns' = NoValue
    /\ tokens' = <<>>
    /\ bio_tags' = <<>>
    /\ UNCHANGED <<id2label, expanded_labels, replaced_id2label, example,
                   dataset, spans_dataset, label_options, lines, spans, result>>

RoundTripInit ==
    /\ pc = "fwd"
    /\ id2label = StdId2Label
    /\ OneTokenExample
    /\ FwdIdle

RoundTripNext ==
    \/ FwdOptions \/ FwdMapRow \/ FwdFinish
    \/ RoundTripCall
    \/ BwdNextExample \/ BwdParseLine \/ BwdAlign \/ BwdColumns \/ BwdFinish
SpecRoundTrip == RoundTripInit /\ [][RoundTripNext]_vars

SourceTags == [k \in DOMAIN dataset[1].labels |-> id2label[dataset[1].labels[k]]]
SourceBegins == {b \in DOMAIN SourceTags : SourceTags[b][1] = "B"}
SourceBegin == CHOOSE b \in SourceBegins : TRUE
SourceEntityText ==
    Join(SubSeq(dataset[1].tokens, SourceBegin, EntityEnd(SourceTags, SourceBegin)),
         <<" ">>)

\* the example has one entity, well-formed tags, and the entity text occurs
\* at exactly one position of the reconstructed text
OneUniqueEntity ==
    /\ WellFormedBio(SourceTags)
    /\ Cardinality(SourceBegins) = 1
    /\ Cardinality(Occurrences(DocText(dataset[1].tokens), SourceEntityText)) = 1

\* the same, the text and the entity text compared without regard to case
OneUniqueEntityAnyCase ==
    /\ WellFormedBio(SourceTags)
    /\ Cardinality(SourceBegins) = 1
    /\ Cardinality(LowerOccurrences(DocText(dataset[1].tokens),
                                    Lower(SourceEntityText))) = 1

\* the returned dataset has one example, whose tags mark one entity of the
\* type and the text of the source entity and are 'O' elsewhere
EntityRecovered ==
    /\ pc = "bwd_done"
    /\ Len(result) = 1
    /\ LET tags == [k \in DOMAIN result[1].labels |-> id2label[result[1].labels[k]]]
           begins == {b \in DOMAIN tags : tags[b][1] = "B"}
       IN  /\ Len(tags) = Len(result[1].tokens)
           /\ Cardinality(begins) = 1
           /\ \A b \in begins :
                /\ TypeOf(tags[b]) = TypeOf(SourceTags[SourceBegin])
                /\ Join(SubSeq(result[1].tokens, b, EntityEnd(tags, b)), <<" ">>)
                     = SourceEntityText
                /\ \A t \in DOMAIN tags :
                     (t < b \/ t > EntityEnd(tags, b)) => tags[t] = O

\* C8 as stated: an example with one entity whose text occurs exactly once in
\* the reconstructed text is returned by the round trip with one entity of
\* the same type over the tokens that spell the same text, 'O' elsewhere.
C8_RoundTripAsStated ==
    (pc = "bwd_done" /\ OneUniqueEntity) => EntityRecovered

\* C8, amended: the same, for an entity whose text occurs exactly once in the
\* reconstructed text when both are compared without regard to case.
C8_RoundTrip ==
    (Terminated /\ OneUniqueEntityAnyCase) => EntityRecovered

\* a two-token entity next to a word that contains its first token has gone
\* through the round trip
C8_Witness ==
    /\ pc = "bwd_done"
    /\ OneUniqueEntityAnyCase
    /\ dataset = << [tokens |-> <<Ali, Al, Bo>>, labels |-> <<0, 3, 4>>] >>
    /\ result = << [tokens |-> <<Ali, Al, Bo>>, labels |-> <<0, 3, 4>>] >>

-----------------------------------------------------------------------------
(* Every call of the module *)

Init == RemapInit \/ QAInit \/ FwdInit \/ BwdInit
Next ==
    \/ RemapCall
    \/ QACall
    \/ FwdOptions \/ FwdMapRow \/ FwdFinish
    \/ RoundTripCall
    \/ BwdNextExample \/ BwdParseLine \/ BwdAlign \/ BwdColumns \/ BwdFinish
Spec == Init /\ [][Next]_vars

====
